---- MODULE Spec2Model ----
(***************************************************************************)
(* Container pool manager and execution orchestrator of the Python MCP     *)
(* server (src/McpServers/PythonMCPServer/src/server.py).                  *)
(*                                                                         *)
(* ContainerManager.containers is an insertion-ordered dict; it is modelled*)
(* as a sequence of records [id, busy, last_used] in insertion order.      *)
(* Every method of ContainerManager that runs under self.lock is one       *)
(* atomic action.  Calls to the Docker client and to the filesystem are    *)
(* made outside the lock and are separate steps of a request.              *)
(*                                                                         *)
(* The file tools (list_directory, read_file, write_file, delete_file,     *)
(* get_directory_tree) work on code_dir through _sanitize_path.  A path is *)
(* a string over '/', '.', 'a'; it is parsed the way pathlib parses a      *)
(* POSIX path.  code_dir is the set of its files and directories, each a   *)
(* sequence of names from code_dir down.                                   *)
(*                                                                         *)
(* The environment a container receives is built from os.environ by the    *)
(* prefix test of execute_python_in_container; names of variables are      *)
(* sequences of characters.                                                *)
(***************************************************************************)
EXTENDS Integers, FiniteSets, Sequences, TLC

\* ---------------------------------------------------------------- bounds
\* number of callers; each makes one execute_python_in_container call after
\* the other
NumRequests == 2
\* --max-containers (configuration; the default is 10)
max_containers == 1
\* --idle-timeout in clock ticks (configuration; the default is 600 s)
max_idle_time == 0
\* the clock time.time() runs from 0 to MaxTime
MaxTime == 1
\* number of containers the Docker daemon hands out before run() only fails
MaxIds == 2
\* iterations of the wait loop: max_wait_time / wait_interval (30 / 0.5 in
\* the source), scaled down
MaxWaitPolls == 2
\* longest relative_path given to a file tool, in characters
MaxPathLen == 4
\* number of files in code_dir beyond which no write_file call is made
MaxFiles == 1
\* longest of the short names of environment variables, in characters
MaxNameLen == 2
\* number of variables in the host environment
MaxEnvVars == 2

Requests == 1..NumRequests
Ids == 1..MaxIds
None == 0
\* the characters of a relative_path: the separator, the dot, a letter
PathChars == {"/", ".", "a"}

VARIABLES
    containers,   \* ContainerManager.containers, in insertion order
    running,      \* ContainerManager.running
    live,         \* containers that exist in the Docker daemon
    nextId,       \* next container id the daemon hands out
    now,          \* time.time()
    reaper_pc,    \* position of the cleanup thread in _cleanup_loop
    reaper_now,   \* local `now` of cleanup_idle_containers
    shutdown_pc,  \* position of the exit hook cleanup_on_exit
    script,       \* owner of the content of code_dir/script.py, None if absent
    pc,           \* position of each request in execute_python_in_container
    container,    \* local `container` of each request (an id or None)
    reusing,      \* local `reusing_container`
    waited,       \* local `waited_time`, in wait intervals
    exec_result,  \* local `exec_result`: [exit_code, utf8]
    ran,          \* owner of the script the running exec_run executes
    result,       \* what the caller's last call returned (or that it raised)
    files,        \* the regular files under code_dir, as paths from code_dir
    dirs,         \* the directories under code_dir, as paths from code_dir
    link,         \* code_dir holds a symbolic link that leads out of it
    call,         \* the file tool call being served
    fout,         \* what that call has returned
    environ,      \* os.environ of the server process
    env_vars,     \* local `env_vars` of execute_python_in_container
    env_pc        \* whether env_vars is still to be built

vars == <<containers, running, live, nextId, now, reaper_pc, reaper_now,
          shutdown_pc, script, pc, container, reusing, waited, exec_result,
          ran, result, files, dirs, link, call, fout, environ, env_vars,
          env_pc>>

\* the state of the container manager and of execute_python_in_container
execVars == <<containers, running, live, nextId, now, reaper_pc, reaper_now,
              shutdown_pc, script, pc, container, reusing, waited,
              exec_result, ran, result>>

\* the state of the file tools
fileVars == <<files, dirs, link, call, fout>>

\* the host environment and the environment built from it
envVars == <<environ, env_vars, env_pc>>

poolVars == <<containers, running, live, nextId>>
reaperVars == <<reaper_pc, reaper_now>>

\* ------------------------------------------------------- ContainerManager

\* local exec_result while exec_run has not returned
NoExec == [exit_code |-> -1, utf8 |-> TRUE]
\* result of a caller whose call has not returned
NoResult == [kind |-> "none", exit_code |-> -1, output |-> FALSE]

\* no file tool call has been made
NoCall == [op |-> "none", path |-> <<>>]
\* what a file tool returns, by kind of text
FileOutput(k) == [kind |-> k, msg |-> ""]
\* the file tool call has not returned
NoOutput == FileOutput("none")

\* ids tracked by the manager
Tracked(cs) == {cs[i].id : i \in DOMAIN cs}

\* should_create_new_container
should_create_new_container(cs) == Len(cs) < max_containers

\* index of the first not-busy entry in dict order, 0 if none
FirstAvailable(cs) ==
    IF \E i \in DOMAIN cs : ~cs[i].busy
    THEN CHOOSE i \in DOMAIN cs :
            /\ ~cs[i].busy
            /\ \A j \in DOMAIN cs : ~cs[j].busy => i <= j
    ELSE 0

\* get_available_container: the id returned (None if none)
AvailableId(cs) ==
    IF FirstAvailable(cs) = 0 THEN None ELSE cs[FirstAvailable(cs)].id

\* get_available_container that returns the container without marking it
MarkNothing(cs, t) == cs

\* get_available_container that marks the container busy and leaves its
\* last_used as it was
MarkBusyKeepsLastUsed(cs, t) ==
    IF FirstAvailable(cs) = 0 THEN cs
    ELSE [cs EXCEPT ![FirstAvailable(cs)] =
              [id |-> @.id, busy |-> TRUE, last_used |-> @.last_used]]

\* get_available_container: the dict afterwards
MarkBusy(cs, t) ==
    IF FirstAvailable(cs) = 0 THEN cs
    ELSE [cs EXCEPT ![FirstAvailable(cs)] =
              [id |-> @.id, busy |-> TRUE, last_used |-> t]]

\* add_container
add_container(cs, id, t) ==
    IF id \in Tracked(cs)
    THEN [i \in DOMAIN cs |->
            IF cs[i].id = id
            THEN [id |-> id, busy |-> FALSE, last_used |-> t]
            ELSE cs[i]]
    ELSE Append(cs, [id |-> id, busy |-> FALSE, last_used |-> t])

\* mark_container_as_available that refreshes last_used and leaves busy alone
mark_refresh_only(cs, id, t) ==
    [i \in DOMAIN cs |->
        IF cs[i].id = id
        THEN [id |-> id, busy |-> cs[i].busy, last_used |-> t]
        ELSE cs[i]]

\* mark_container_as_available that writes the entry of an id the dict does
\* not hold instead of leaving the dict alone
mark_or_insert(cs, id, t) ==
    IF \E i \in DOMAIN cs : cs[i].id = id
    THEN [i \in DOMAIN cs |->
            IF cs[i].id = id
            THEN [id |-> id, busy |-> FALSE, last_used |-> t]
            ELSE cs[i]]
    ELSE Append(cs, [id |-> id, busy |-> FALSE, last_used |-> t])

\* mark_container_as_available: only an id the dict holds is touched
mark_container_as_available(cs, id, t) ==
    [i \in DOMAIN cs |->
        IF cs[i].id = id
        THEN [id |-> id, busy |-> FALSE, last_used |-> t]
        ELSE cs[i]]

\* the dict without the ids in gone, order kept
RECURSIVE Without(_, _)
Without(cs, gone) ==
    IF cs = <<>> THEN <<>>
    ELSE IF Head(cs).id \in gone
         THEN Without(Tail(cs), gone)
         ELSE <<Head(cs)>> \o Without(Tail(cs), gone)

\* the selection of cleanup_idle_containers without its `not info['busy']`
IdleIdsAnyState(cs, t) ==
    {cs[i].id : i \in {j \in DOMAIN cs : t - cs[j].last_used > max_idle_time}}

\* cleanup_idle_containers: the ids selected for removal
IdleIds(cs, t) ==
    {cs[i].id : i \in {j \in DOMAIN cs :
                          ~cs[j].busy /\ t - cs[j].last_used > max_idle_time}}

\* ------------------------------------------------------------------ Init

\* the manager after construction, no request made, code_dir empty
InitServer ==
    /\ containers = <<>>
    /\ running = TRUE
    /\ live = {}
    /\ nextId = 1
    /\ now = 0
    /\ reaper_pc = "check"
    /\ reaper_now = 0
    /\ shutdown_pc = "serving"
    /\ script = None
    /\ pc = [r \in Requests |-> "idle"]
    /\ container = [r \in Requests |-> None]
    /\ reusing = [r \in Requests |-> FALSE]
    /\ waited = [r \in Requests |-> 0]
    /\ exec_result = [r \in Requests |-> NoExec]
    /\ ran = [r \in Requests |-> None]
    /\ result = [r \in Requests |-> NoResult]
    /\ files = {}
    /\ dirs = {}
    /\ link = FALSE
    /\ call = NoCall
    /\ fout = NoOutput

\* the mapping without a key
EmptyEnv == [k \in {} |-> "x"]

Init ==
    /\ InitServer
    /\ environ = EmptyEnv
    /\ env_vars = EmptyEnv
    /\ env_pc = "filter"


\* ---------------------------------------------- execute_python_in_container

\* the script file after `if os.path.exists(script_path): os.remove(...)`;
\* a failing os.remove is logged and ignored
RemoveScript(s) == {None, s}

\* the text returned for an exception e
ErrorText == [kind |-> "exception_text", exit_code |-> -1, output |-> FALSE]

\* the text returned for a non-zero exit code
ExitCodeText(res) ==
    [kind |-> "exit_code_text", exit_code |-> res.exit_code, output |-> TRUE]

\* the text returned for a successful run
OutputText(res) ==
    [kind |-> "output_text", exit_code |-> res.exit_code, output |-> TRUE]

\* the text returned when the wait loop ran out
CapacityText ==
    [kind |-> "capacity_text", exit_code |-> -1, output |-> FALSE]

\* the call did not return: an exception left the function
Raised == [kind |-> "raised", exit_code |-> -1, output |-> FALSE]

\* the call of r is over: its locals are gone, its result is with the caller
Return(r, text) ==
    /\ pc' = [pc EXCEPT ![r] = "idle"]
    /\ result' = [result EXCEPT ![r] = text]
    /\ container' = [container EXCEPT ![r] = None]
    /\ reusing' = [reusing EXCEPT ![r] = FALSE]
    /\ waited' = [waited EXCEPT ![r] = 0]
    /\ exec_result' = [exec_result EXCEPT ![r] = NoExec]
    /\ ran' = [ran EXCEPT ![r] = None]

\* r moves on inside its call
Goto(r, label) ==
    /\ pc' = [pc EXCEPT ![r] = label]
    /\ UNCHANGED result

\* lines 226-232: makedirs, open, write.  makedirs raising leaves
\* script_path unbound, so the handler at 339-341 raises NameError itself;
\* open or write raising is caught at 339 with script_path bound.
Stage(r) ==
    /\ pc[r] = "idle"
    /\ shutdown_pc = "serving"
    /\ \/ /\ script' = r
          /\ pc' = [pc EXCEPT ![r] = "acquire"]
          /\ result' = [result EXCEPT ![r] = NoResult]
       \/ /\ pc' = [pc EXCEPT ![r] = "outer_except"]
          /\ result' = [result EXCEPT ![r] = NoResult]
          /\ UNCHANGED script
       \/ /\ result' = [result EXCEPT ![r] = Raised]
          /\ UNCHANGED <<script, pc>>
    /\ UNCHANGED <<poolVars, now, reaperVars, shutdown_pc, container,
                   reusing, waited, exec_result, ran>>
    /\ UNCHANGED <<fileVars, envVars>>

\* lines 253-254: get_available_container
Acquire(r) ==
    /\ pc[r] = "acquire"
    /\ container' = [container EXCEPT ![r] = AvailableId(containers)]
    /\ reusing' = [reusing EXCEPT ![r] = AvailableId(containers) # None]
    /\ containers' = MarkBusy(containers, now)
    /\ Goto(r, IF AvailableId(containers) # None THEN "exec" ELSE "check")
    /\ UNCHANGED <<running, live, nextId, now, reaperVars, shutdown_pc,
                   script, waited, exec_result, ran>>
    /\ UNCHANGED <<fileVars, envVars>>

\* lines 256, 275: should_create_new_container
CheckCapacity(r) ==
    /\ pc[r] = "check"
    /\ Goto(r, IF should_create_new_container(containers)
               THEN "create" ELSE "wait")
    /\ UNCHANGED <<poolVars, now, reaperVars, shutdown_pc, script,
                   container, reusing, waited, exec_result, ran>>
    /\ UNCHANGED <<fileVars, envVars>>

\* a creation that takes a slot of the dict before client.containers.run
\* and leaves it taken when run raises
CreateLeaksSlot(r) ==
    /\ pc[r] = "create"
    /\ \/ /\ nextId <= MaxIds
          /\ container' = [container EXCEPT ![r] = nextId]
          /\ live' = live \cup {nextId}
          /\ nextId' = nextId + 1
          /\ Goto(r, "add")
          /\ UNCHANGED containers
       \/ /\ Goto(r, "outer_except")
          /\ containers' = Append(containers, [id |-> None, busy |-> TRUE,
                                               last_used |-> now])
          /\ UNCHANGED <<container, live, nextId>>
    /\ UNCHANGED <<running, now, reaperVars, shutdown_pc,
                   script, reusing, waited, exec_result, ran>>
    /\ UNCHANGED <<fileVars, envVars>>

\* lines 258-270: client.containers.run, outside the lock; it may raise
Create(r) ==
    /\ pc[r] = "create"
    /\ \/ /\ nextId <= MaxIds
          /\ container' = [container EXCEPT ![r] = nextId]
          /\ live' = live \cup {nextId}
          /\ nextId' = nextId + 1
          /\ Goto(r, "add")
       \/ /\ Goto(r, "outer_except")
          /\ UNCHANGED <<container, live, nextId>>
    /\ UNCHANGED <<containers, running, now, reaperVars, shutdown_pc,
                   script, reusing, waited, exec_result, ran>>
    /\ UNCHANGED <<fileVars, envVars>>

\* lines 273-274: add_container (and the logged get_container_count)
AddContainer(r) ==
    /\ pc[r] = "add"
    /\ containers' = add_container(containers, container[r], now)
    /\ Goto(r, "exec")
    /\ UNCHANGED <<running, live, nextId, now, reaperVars, shutdown_pc,
                   script, container, reusing, waited, exec_result, ran>>
    /\ UNCHANGED <<fileVars, envVars>>

\* the loop condition with <= for <
WaitLoopInclusive(w) == w <= MaxWaitPolls

\* line 282: while waited_time < max_wait_time
WaitLoop(w) == w < MaxWaitPolls

\* lines 282-288: one iteration of the wait loop that finds a container
PollFound(r) ==
    /\ pc[r] = "wait"
    /\ WaitLoop(waited[r])
    /\ AvailableId(containers) # None
    /\ container' = [container EXCEPT ![r] = AvailableId(containers)]
    /\ containers' = MarkBusy(containers, now)
    /\ reusing' = [reusing EXCEPT ![r] = TRUE]
    /\ Goto(r, "exec")
    /\ UNCHANGED <<running, live, nextId, now, reaperVars, shutdown_pc,
                   script, waited, exec_result, ran>>
    /\ UNCHANGED <<fileVars, envVars>>

\* lines 282-288: one iteration of the wait loop that finds none, and sleeps
PollNone(r) ==
    /\ pc[r] = "wait"
    /\ WaitLoop(waited[r])
    /\ AvailableId(containers) = None
    /\ containers' = MarkBusy(containers, now)
    /\ waited' = [waited EXCEPT ![r] = @ + 1]
    /\ Goto(r, "wait")
    /\ UNCHANGED <<running, live, nextId, now, reaperVars, shutdown_pc,
                   script, container, reusing, exec_result, ran>>
    /\ UNCHANGED <<fileVars, envVars>>

\* lines 282, 290-291: the loop is over without a container
WaitTimeout(r) ==
    /\ pc[r] = "wait"
    /\ ~WaitLoop(waited[r])
    /\ Return(r, CapacityText)
    /\ UNCHANGED <<poolVars, now, reaperVars, shutdown_pc, script>>
    /\ UNCHANGED <<fileVars, envVars>>

\* what `python /code/script.py` can exit with: a missing script makes the
\* interpreter exit with code 2 and a text message
ExecOutcomes(s) ==
    IF s = None
    THEN {[exit_code |-> 2, utf8 |-> TRUE]}
    ELSE [exit_code : {0, 1}, utf8 : BOOLEAN]

\* lines 300-303: exec_run is called (no timeout is passed); the interpreter
\* in the container opens /code/script.py.  The code may never terminate.
\* A container that no longer exists makes the call raise.
ExecBegin(r) ==
    /\ pc[r] = "exec"
    /\ IF container[r] \in live
       THEN /\ ran' = [ran EXCEPT ![r] = script]
            /\ \/ Goto(r, "running")
               \/ /\ script # None
                  /\ Goto(r, "hung")
       ELSE /\ Goto(r, "except_mark")
            /\ UNCHANGED ran
    /\ UNCHANGED <<poolVars, now, reaperVars, shutdown_pc, script,
                   container, reusing, waited, exec_result>>
    /\ UNCHANGED <<fileVars, envVars>>

\* lines 300-303: exec_run returns (exit_code, output) or raises
ExecReturn(r) ==
    /\ pc[r] = "running"
    /\ \/ \E res \in ExecOutcomes(ran[r]) :
            /\ exec_result' = [exec_result EXCEPT ![r] = res]
            /\ Goto(r, "mark")
       \/ /\ Goto(r, "except_mark")
          /\ UNCHANGED exec_result
    /\ ran' = [ran EXCEPT ![r] = None]
    /\ UNCHANGED <<poolVars, now, reaperVars, shutdown_pc, script,
                   container, reusing, waited>>
    /\ UNCHANGED <<fileVars, envVars>>

\* a never-ending execution ends only when its container is removed under it
ExecKilled(r) ==
    /\ pc[r] = "hung"
    /\ container[r] \notin live
    /\ ran' = [ran EXCEPT ![r] = None]
    /\ Goto(r, "except_mark")
    /\ UNCHANGED <<poolVars, now, reaperVars, shutdown_pc, script,
                   container, reusing, waited, exec_result>>
    /\ UNCHANGED <<fileVars, envVars>>

\* output.decode('utf-8') raises UnicodeDecodeError on invalid bytes
DecodeRaises(res) == ~res.utf8

\* lines 306-310: mark_container_as_available, then the exit-code check and
\* the return of the non-zero branch
Release(r) ==
    /\ pc[r] = "mark"
    /\ containers' = mark_container_as_available(containers, container[r], now)
    /\ IF exec_result[r].exit_code # 0
       THEN IF DecodeRaises(exec_result[r])
            THEN /\ Goto(r, "except_mark")
                 /\ UNCHANGED <<container, reusing, waited, exec_result, ran>>
            ELSE Return(r, ExitCodeText(exec_result[r]))
       ELSE /\ Goto(r, "cleanup")
            /\ UNCHANGED <<container, reusing, waited, exec_result, ran>>
    /\ UNCHANGED <<running, live, nextId, now, reaperVars, shutdown_pc,
                   script>>
    /\ UNCHANGED <<fileVars, envVars>>

\* lines 313-320: delete the script file, return the decoded output
CleanupScript(r) ==
    /\ pc[r] = "cleanup"
    /\ script' \in RemoveScript(script)
    /\ IF DecodeRaises(exec_result[r])
       THEN /\ Goto(r, "except_mark")
            /\ UNCHANGED <<container, reusing, waited, exec_result, ran>>
       ELSE Return(r, OutputText(exec_result[r]))
    /\ UNCHANGED <<poolVars, now, reaperVars, shutdown_pc>>
    /\ UNCHANGED <<fileVars, envVars>>

\* lines 322-328: the handler marks the container available
ExceptRelease(r) ==
    /\ pc[r] = "except_mark"
    /\ containers' = mark_container_as_available(containers, container[r], now)
    /\ Goto(r, "except_cleanup")
    /\ UNCHANGED <<running, live, nextId, now, reaperVars, shutdown_pc,
                   script, container, reusing, waited, exec_result, ran>>
    /\ UNCHANGED <<fileVars, envVars>>

\* lines 331-338: the handler deletes the script file and returns the text
ExceptCleanup(r) ==
    /\ pc[r] = "except_cleanup"
    /\ script' \in RemoveScript(script)
    /\ Return(r, ErrorText)
    /\ UNCHANGED <<poolVars, now, reaperVars, shutdown_pc>>
    /\ UNCHANGED <<fileVars, envVars>>

\* lines 339-348: the outer handler, reached with script_path bound
OuterExcept(r) ==
    /\ pc[r] = "outer_except"
    /\ script' \in RemoveScript(script)
    /\ Return(r, ErrorText)
    /\ UNCHANGED <<poolVars, now, reaperVars, shutdown_pc>>
    /\ UNCHANGED <<fileVars, envVars>>

Request(r) ==
    \/ Stage(r)
    \/ Acquire(r)
    \/ CheckCapacity(r)
    \/ Create(r)
    \/ AddContainer(r)
    \/ PollFound(r)
    \/ PollNone(r)
    \/ WaitTimeout(r)
    \/ ExecBegin(r)
    \/ ExecReturn(r)
    \/ ExecKilled(r)
    \/ Release(r)
    \/ CleanupScript(r)
    \/ ExceptRelease(r)
    \/ ExceptCleanup(r)
    \/ OuterExcept(r)

\* ----------------------------------------------------------- cleanup thread

\* lines 40-41, 46: `while self.running`, time.sleep(60), and the clock read
\* of cleanup_idle_containers, which comes before the lock is taken
ReaperWake ==
    /\ reaper_pc = "check"
    /\ IF running
       THEN /\ reaper_pc' = "evict"
            /\ reaper_now' = now
       ELSE /\ reaper_pc' = "stopped"
            /\ UNCHANGED reaper_now
    /\ UNCHANGED <<poolVars, now, shutdown_pc, script, pc, container,
                   reusing, waited, exec_result, ran, result>>
    /\ UNCHANGED <<fileVars, envVars>>

\* lines 49-64: under the lock; container.remove may raise for any of the
\* selected containers, and `del` is then skipped for it
ReaperEvict ==
    /\ reaper_pc = "evict"
    /\ \E failed \in SUBSET IdleIds(containers, reaper_now) :
          LET gone == IdleIds(containers, reaper_now) \ failed IN
          /\ (IdleIds(containers, reaper_now) \ live) \subseteq failed
          /\ containers' = Without(containers, gone)
          /\ live' = live \ gone
    /\ reaper_pc' = "check"
    /\ reaper_now' = 0
    /\ UNCHANGED <<running, nextId, now, shutdown_pc, script, pc, container,
                   reusing, waited, exec_result, ran, result>>
    /\ UNCHANGED <<fileVars, envVars>>

\* ----------------------------------------------------------- cleanup_on_exit

\* lines 134-136: the flag is cleared; join(timeout=5) then returns when the
\* thread has ended or when five seconds have passed, whichever is first
ShutdownSignal ==
    /\ shutdown_pc = "serving"
    /\ running' = FALSE
    /\ shutdown_pc' = "cleanup_all"
    /\ UNCHANGED <<containers, live, nextId, now, reaperVars, script, pc,
                   container, reusing, waited, exec_result, ran, result>>
    /\ UNCHANGED <<fileVars, envVars>>

\* cleanup_all that leaves the dict as it is when a container.remove fails
CleanupAllKeepsOnFailure ==
    /\ shutdown_pc = "cleanup_all"
    /\ running' = FALSE
    /\ \E failed \in SUBSET Tracked(containers) :
          /\ (Tracked(containers) \ live) \subseteq failed
          /\ live' = live \ (Tracked(containers) \ failed)
          /\ containers' = IF failed = {} THEN <<>> ELSE containers
    /\ shutdown_pc' = "done"
    /\ UNCHANGED <<nextId, now, reaperVars, script, pc, container, reusing,
                   waited, exec_result, ran, result>>
    /\ UNCHANGED <<fileVars, envVars>>

\* lines 113-125: cleanup_all; a failing container.remove is logged, the
\* dict is cleared all the same
CleanupAll ==
    /\ shutdown_pc = "cleanup_all"
    /\ running' = FALSE
    /\ \E failed \in SUBSET Tracked(containers) :
          /\ (Tracked(containers) \ live) \subseteq failed
          /\ live' = live \ (Tracked(containers) \ failed)
    /\ containers' = <<>>
    /\ shutdown_pc' = "done"
    /\ UNCHANGED <<nextId, now, reaperVars, script, pc, container, reusing,
                   waited, exec_result, ran, result>>
    /\ UNCHANGED <<fileVars, envVars>>

\* ------------------------------------------------------------------- clock

Tick ==
    /\ now < MaxTime
    /\ now' = now + 1
    /\ UNCHANGED <<poolVars, reaperVars, shutdown_pc, script, pc, container,
                   reusing, waited, exec_result, ran, result>>
    /\ UNCHANGED <<fileVars, envVars>>

\* the server while it serves: callers, the cleanup thread, the clock
Next ==
    \/ \E r \in Requests : Request(r)
    \/ ReaperWake
    \/ ReaperEvict
    \/ Tick

Spec == Init /\ [][Next]_vars

\* the server from start to exit: the exit hook runs too
NextExit ==
    \/ Next
    \/ ShutdownSignal
    \/ CleanupAll

SpecExit == Init /\ [][NextExit]_vars

\* ------------------------------------------------------------- file tools

\* paths are strings over this alphabet, of length up to MaxPathLen
RECURSIVE Strings(_)
Strings(n) ==
    IF n = 0 THEN {<<>>}
    ELSE LET S == Strings(n - 1) IN
         S \cup {Append(s, c) : s \in S, c \in PathChars}

PathInputs == Strings(MaxPathLen)

FileOps == {"list", "read", "write", "delete", "tree"}

\* the segments "." and ".."
Dot == <<".">>
DotDot == <<".", ".">>

\* str.split('/'): the pieces of s between its slashes
RECURSIVE Segments(_)
Segments(s) ==
    IF s = <<>> THEN << <<>> >>
    ELSE LET rest == Segments(Tail(s)) IN
         IF Head(s) = "/"
         THEN << <<>> >> \o rest
         ELSE << <<Head(s)>> \o Head(rest) >> \o Tail(rest)

\* pathlib keeps a piece that is neither empty nor "."
KeptSegment(g) == g # <<>> /\ g # Dot

\* pathlib.Path(relative_path).parts of a path that is not absolute
Parts(s) == SelectSeq(Segments(s), KeptSegment)

\* path_obj.is_absolute(): a POSIX path with a root
is_absolute(s) == s # <<>> /\ Head(s) = "/"

\* s without its last element
Front(s) == SubSeq(s, 1, Len(s) - 1)

\* a resolved path: outside code_dir, or inside it at rel
Outside == [outside |-> TRUE, rel |-> <<>>]
Inside(rel) == [outside |-> FALSE, rel |-> rel]

\* the entry of code_dir that may be a symbolic link to a directory elsewhere
LinkName == << <<"a">> >>

\* (code_dir_path / path_obj).resolve(), from position at: ".." goes up,
\* the symbolic link leads out of code_dir
RECURSIVE Walk(_, _, _)
Walk(at, parts, lnk) ==
    IF parts = <<>> \/ at.outside THEN at
    ELSE IF Head(parts) = DotDot
         THEN IF at.rel = <<>>
              THEN Outside
              ELSE Walk(Inside(Front(at.rel)), Tail(parts), lnk)
         ELSE IF lnk /\ Append(at.rel, Head(parts)) = LinkName
              THEN Outside
              ELSE Walk(Inside(Append(at.rel, Head(parts))), Tail(parts), lnk)

Resolve(parts, lnk) == Walk(Inside(<<>>), parts, lnk)

\* ValueError(msg) raised by _sanitize_path
Rejected(msg) == [ok |-> FALSE, msg |-> msg, target |-> <<>>]

\* _sanitize_path without its test for ".." in the parts
sanitize_path_without_dotdot_test(s, lnk) ==
    IF is_absolute(s)
    THEN Rejected("Path must be relative, not absolute")
    ELSE IF Resolve(Parts(s), lnk).outside
         THEN Rejected("Path must stay within the code directory")
         ELSE [ok |-> TRUE, msg |-> "", target |-> Resolve(Parts(s), lnk).rel]

\* _sanitize_path: the target inside code_dir, or the ValueError
sanitize_path(s, lnk) ==
    IF is_absolute(s)
    THEN Rejected("Path must be relative, not absolute")
    ELSE IF \E i \in DOMAIN Parts(s) : Parts(s)[i] = DotDot
         THEN Rejected("Path cannot contain '..' to navigate up directories")
         ELSE IF Resolve(Parts(s), lnk).outside
              THEN Rejected("Path must stay within the code directory")
              ELSE [ok |-> TRUE, msg |-> "",
                    target |-> Resolve(Parts(s), lnk).rel]

\* `except ValueError as e: return f"Error: {str(e)}"`
ValidationError(msg) == [kind |-> "validation_error", msg |-> msg]

\* the non-empty prefixes of t: the directories makedirs goes through
Prefixes(t) == {SubSeq(t, 1, n) : n \in 1..Len(t)}

\* os.path.isdir of a target inside code_dir
IsDir(t) == t = <<>> \/ t \in dirs

\* os.listdir of directory t
Items(t) == {e \in files \cup dirs : e # <<>> /\ Front(e) = t}

\* the handler of tool op has a call to serve
Pending(op) == call.op = op /\ fout = NoOutput

\* a tool call arrives; the number of files in code_dir is capped
FileCall ==
    /\ call = NoCall
    /\ \E op \in FileOps, p \in PathInputs :
          /\ op = "write" => Cardinality(files) < MaxFiles
          /\ call' = [op |-> op, path |-> p]
    /\ UNCHANGED <<execVars, envVars, files, dirs, link, fout>>

\* the text the tool returned has gone to the client
FileReturn ==
    /\ fout # NoOutput
    /\ call' = NoCall
    /\ fout' = NoOutput
    /\ UNCHANGED <<execVars, envVars, files, dirs, link>>

\* code run in a container, which has code_dir mounted read-write at /code,
\* makes an entry of code_dir a symbolic link
MakeLink ==
    /\ ~link
    /\ \A e \in files \cup dirs : e = <<>> \/ SubSeq(e, 1, 1) # LinkName
    /\ link' = TRUE
    /\ UNCHANGED <<execVars, envVars, files, dirs, call, fout>>

\* the directory a list or tree call names: code_dir itself for an empty
\* relative_path, else the sanitized path
DirArgument(s, lnk) ==
    IF s = <<>> THEN [ok |-> TRUE, msg |-> "", target |-> <<>>]
    ELSE sanitize_path(s, lnk)

\* lines 351-403: list_directory
ListDirectory ==
    /\ Pending("list")
    /\ LET p == DirArgument(call.path, link) IN
       fout' = IF ~p.ok THEN ValidationError(p.msg)
               ELSE IF ~IsDir(p.target) THEN FileOutput("not_exists")
               ELSE IF Items(p.target) = {} THEN FileOutput("empty")
               ELSE FileOutput("listing")
    /\ UNCHANGED <<execVars, envVars, files, dirs, link, call>>

\* lines 414-440: read_file; open or read may raise
ReadFile ==
    /\ Pending("read")
    /\ LET p == sanitize_path(call.path, link) IN
       IF ~p.ok THEN fout' = ValidationError(p.msg)
       ELSE IF p.target \notin files THEN fout' = FileOutput("not_exists")
       ELSE fout' \in {FileOutput("contents"), FileOutput("error")}
    /\ UNCHANGED <<execVars, envVars, files, dirs, link, call>>

\* lines 443-469: write_file; makedirs raises when a directory on the way
\* is a file, open raises when the target is a directory
WriteFile ==
    /\ Pending("write")
    /\ LET p == sanitize_path(call.path, link) IN
       IF ~p.ok
       THEN /\ fout' = ValidationError(p.msg)
            /\ UNCHANGED <<files, dirs>>
       ELSE IF p.target = <<>> \/ Prefixes(Front(p.target)) \cap files # {}
       THEN /\ fout' = FileOutput("error")
            /\ UNCHANGED <<files, dirs>>
       ELSE /\ dirs' = dirs \cup Prefixes(Front(p.target))
            /\ IF p.target \in dirs
               THEN /\ fout' = FileOutput("error")
                    /\ UNCHANGED files
               ELSE /\ fout' = FileOutput("written")
                    /\ files' = files \cup {p.target}
    /\ UNCHANGED <<execVars, envVars, link, call>>

\* lines 472-497: delete_file; os.remove may raise
DeleteFile ==
    /\ Pending("delete")
    /\ LET p == sanitize_path(call.path, link) IN
       IF ~p.ok
       THEN /\ fout' = ValidationError(p.msg)
            /\ UNCHANGED files
       ELSE IF p.target \notin files
       THEN /\ fout' = FileOutput("not_exists")
            /\ UNCHANGED files
       ELSE \/ /\ fout' = FileOutput("deleted")
               /\ files' = files \ {p.target}
            \/ /\ fout' = FileOutput("error")
               /\ UNCHANGED files
    /\ UNCHANGED <<execVars, envVars, dirs, link, call>>

\* lines 500-531: get_directory_tree
GetDirectoryTree ==
    /\ Pending("tree")
    /\ LET p == DirArgument(call.path, link) IN
       fout' = IF ~p.ok THEN ValidationError(p.msg)
               ELSE IF ~IsDir(p.target) THEN FileOutput("not_exists")
               ELSE FileOutput("tree")
    /\ UNCHANGED <<execVars, envVars, files, dirs, link, call>>

\* the file tools served one call after the other
NextFiles ==
    \/ FileCall
    \/ FileReturn
    \/ MakeLink
    \/ ListDirectory
    \/ ReadFile
    \/ WriteFile
    \/ DeleteFile
    \/ GetDirectoryTree

SpecFiles == Init /\ [][NextFiles]_vars

\* -------------------------------------------------- environment filter

\* lines 235-241: system_env_prefixes, in the order of the list
system_env_prefixes == <<
    <<"P", "A", "T", "H">>, <<"T", "E", "M", "P">>, <<"T", "M", "P">>,
    <<"H", "O", "M", "E">>, <<"U", "S", "E", "R">>,
    <<"A", "P", "P", "D", "A", "T", "A">>,
    <<"L", "O", "C", "A", "L", "A", "P", "P", "D", "A", "T", "A">>,
    <<"P", "R", "O", "G", "R", "A", "M", "D", "A", "T", "A">>,
    <<"S", "Y", "S", "T", "E", "M">>, <<"P", "U", "B", "L", "I", "C">>,
    <<"C", "O", "M", "P", "U", "T", "E", "R">>, <<"O", "S">>,
    <<"P", "R", "O", "C", "E", "S", "S", "O", "R">>,
    <<"P", "R", "O", "G", "R", "A", "M">>, <<"W", "I", "N">>,
    <<"C", "O", "M", "M", "O", "N">>, <<"P", "A", "T", "H">>
>>

\* the connection strings the tool's description names (lines 211-215)
ConnectionVars == {
    <<"M", "O", "N", "G", "O", "_", "U", "R", "I">>,
    <<"E", "L", "A", "S", "T", "I", "C", "_", "U", "R", "I">>,
    <<"R", "E", "D", "I", "S", "_", "U", "R", "I">>,
    <<"P", "O", "S", "T", "G", "R", "E", "S", "_", "U", "R", "I">>,
    <<"M", "Y", "S", "Q", "L", "_", "U", "R", "I">>
}

\* further names a host environment holds
HostNames == {
    <<"P", "A", "T", "H">>, <<"P", "a", "t", "h">>, <<"p", "a", "t", "h">>,
    <<"P", "A", "T", "H", "E", "X", "T">>, <<"T", "E", "M", "P">>,
    <<"t", "e", "m", "p">>, <<"T", "M", "P", "D", "I", "R">>,
    <<"H", "O", "M", "E">>,
    <<"H", "O", "M", "E", "D", "R", "I", "V", "E">>,
    <<"U", "S", "E", "R", "N", "A", "M", "E">>,
    <<"U", "s", "e", "r", "P", "r", "o", "f", "i", "l", "e">>,
    <<"A", "P", "P", "D", "A", "T", "A">>,
    <<"L", "O", "C", "A", "L", "A", "P", "P", "D", "A", "T", "A">>,
    <<"P", "r", "o", "g", "r", "a", "m", "D", "a", "t", "a">>,
    <<"S", "y", "s", "t", "e", "m", "R", "o", "o", "t">>,
    <<"P", "U", "B", "L", "I", "C">>,
    <<"C", "O", "M", "P", "U", "T", "E", "R", "N", "A", "M", "E">>,
    <<"O", "S">>,
    <<"P", "R", "O", "C", "E", "S", "S", "O", "R", "_", "L", "E", "V", "E", "L">>,
    <<"P", "r", "o", "g", "r", "a", "m", "F", "i", "l", "e", "s">>,
    <<"w", "i", "n", "d", "i", "r">>,
    <<"C", "o", "m", "m", "o", "n", "P", "r", "o", "g", "r", "a", "m", "F", "i", "l", "e", "s">>,
    <<"O", "S", "T", "Y", "P", "E">>,
    <<"W", "I", "N", "D", "O", "W", "I", "D">>,
    <<"G", "O", "P", "A", "T", "H">>,
    <<"P", "Y", "T", "H", "O", "N", "P", "A", "T", "H">>,
    <<"L", "A", "N", "G">>, <<"H", "O", "S", "T", "N", "A", "M", "E">>,
    <<"P", "W", "D">>, <<"T", "M">>, <<"W", "I">>, <<"P", "A", "T">>,
    <<"A", "P", "I", "_", "K", "E", "Y">>,
    <<"m", "o", "n", "g", "o", "_", "u", "r", "i">>,
    <<"_", "P", "A", "T", "H">>
}

\* the characters of the short names
NameChars == {"O", "o", "S", "_"}

\* the names over NameChars of 1 to n characters
RECURSIVE ShortNames(_)
ShortNames(n) ==
    IF n = 1 THEN {<<c>> : c \in NameChars}
    ELSE LET S == ShortNames(n - 1) IN
         S \cup {Append(s, c) : s \in S, c \in NameChars}

\* the names a variable of the host environment may have
Names == ConnectionVars \cup HostNames \cup ShortNames(MaxNameLen)

\* the values a variable may have
Values == {"x", "y"}

\* the sets of at most n names
RECURSIVE NameSets(_)
NameSets(n) ==
    IF n = 0 THEN {{}}
    ELSE LET S == NameSets(n - 1) IN
         S \cup {D \cup {k} : D \in S, k \in Names}

\* os.environ: a mapping of at most MaxEnvVars names to values
Environs == UNION {[D -> Values] : D \in NameSets(MaxEnvVars)}

\* the letters, lower case and upper case
LowerCase == <<"a", "b", "c", "d", "e", "f", "g", "h", "i", "j", "k", "l", "m",
               "n", "o", "p", "q", "r", "s", "t", "u", "v", "w", "x", "y", "z">>
UpperCase == <<"A", "B", "C", "D", "E", "F", "G", "H", "I", "J", "K", "L", "M",
               "N", "O", "P", "Q", "R", "S", "T", "U", "V", "W", "X", "Y", "Z">>

\* the upper-case letter of each lower-case letter
ToUpper ==
    [c \in {LowerCase[i] : i \in DOMAIN LowerCase} |->
        UpperCase[CHOOSE i \in DOMAIN LowerCase : LowerCase[i] = c]]

\* str.upper() of one character
UpperChar(c) == IF c \in DOMAIN ToUpper THEN ToUpper[c] ELSE c

\* key.upper()
upper(key) == [i \in DOMAIN key |-> UpperChar(key[i])]

\* s.startswith(prefix)
startswith(s, prefix) ==
    /\ Len(prefix) <= Len(s)
    /\ SubSeq(s, 1, Len(prefix)) = prefix

\* the test of line 247 without upper(): the key as it is spelled
IsSystemVarAsSpelled(key) ==
    \E i \in DOMAIN system_env_prefixes :
        startswith(key, system_env_prefixes[i])

\* line 247: any(key.upper().startswith(prefix) for prefix in ...)
IsSystemVar(key) ==
    \E i \in DOMAIN system_env_prefixes :
        startswith(upper(key), system_env_prefixes[i])

\* lines 244-248: the dict env_vars built from os.environ
FilterEnviron(env) ==
    [k \in {key \in DOMAIN env : ~IsSystemVar(key)} |-> env[k]]

\* lines 234-250: execute_python_in_container builds env_vars, which it
\* passes to containers.run (line 267) and to exec_run (line 302)
BuildEnvVars ==
    /\ env_pc = "filter"
    /\ env_vars' = FilterEnviron(environ)
    /\ env_pc' = "done"
    /\ UNCHANGED <<execVars, fileVars, environ>>

\* the next call builds env_vars anew
NextCall ==
    /\ env_pc = "done"
    /\ env_vars' = EmptyEnv
    /\ env_pc' = "filter"
    /\ UNCHANGED <<execVars, fileVars, environ>>

NextEnv ==
    \/ BuildEnvVars
    \/ NextCall

\* the server started in a host environment, building env_vars
InitEnv ==
    /\ InitServer
    /\ environ \in Environs
    /\ env_vars = EmptyEnv
    /\ env_pc = "filter"

SpecEnv == InitEnv /\ [][NextEnv]_vars

\* ------------------------------------------------------------------ claims

\* id is tracked and busy
Busy(cs, id) == \E i \in DOMAIN cs : cs[i].id = id /\ cs[i].busy

\* id is tracked and not busy
Available(cs, id) == \E i \in DOMAIN cs : cs[i].id = id /\ ~cs[i].busy

\* positions between the acquisition of a unit and its release
HoldingPcs == {"exec", "running", "hung", "mark"}

\* r is between acquiring unit id (by reuse or by creation) and releasing it
Holds(r, id) == pc[r] \in HoldingPcs /\ container[r] = id

\* C1: the number of units the pool tracks (Busy plus Available) never
\* exceeds max_containers.
C1_PoolWithinCapacity == Len(containers) <= max_containers

\* C2: no two requests are between acquiring and releasing the same unit at
\* the same time.
C2_OneHolderPerUnit ==
    \A r1, r2 \in Requests : \A id \in Ids :
        (Holds(r1, id) /\ Holds(r2, id)) => r1 = r2

\* positions from the acquisition of a unit up to the release of an exit path
UnreleasedPcs == HoldingPcs \cup {"except_mark"}

\* C3: every step by which a request that acquired a unit leaves the part of
\* the call that holds it (normal return, non-zero exit code, exception)
\* leaves that unit not Busy: Available, or no longer in the pool.
C3_ReleasedOnEveryExit ==
    [][\A r \in Requests :
          (/\ pc[r] \in UnreleasedPcs
           /\ pc'[r] \notin UnreleasedPcs)
          => ~Busy(containers', container[r])]_vars

\* C3 witness: a request whose exec_run raised has released its unit through
\* the handler, and the unit is Available in the pool.
C3_Witness ==
    \E r \in Requests :
        /\ pc[r] = "except_cleanup"
        /\ exec_result[r] = NoExec
        /\ Available(containers, container[r])

\* C4: a cycle of cleanup_idle_containers removes no unit that is Busy when
\* the cycle runs, whatever its last_used: the unit stays in the pool and in
\* the Docker daemon.
C4_EvictionSparesBusy ==
    [][(reaper_pc = "evict" /\ reaper_pc' = "check")
          => \A i \in DOMAIN containers :
                containers[i].busy
                => /\ Busy(containers', containers[i].id)
                   /\ (containers[i].id \in live => containers[i].id \in live')]_vars

\* C4 witness: a cycle is about to run over a pool that holds a Busy unit
\* idle past the timeout next to an Available one idle past the timeout.
C4_Witness ==
    /\ reaper_pc = "evict"
    /\ \E i, j \in DOMAIN containers :
          /\ containers[i].busy
          /\ reaper_now - containers[i].last_used > max_idle_time
          /\ ~containers[j].busy
          /\ reaper_now - containers[j].last_used > max_idle_time

\* C5: a request in the wait loop makes at most MaxWaitPolls polls; a poll
\* that finds nothing changes neither the pool nor the daemon; and when the
\* loop runs out the call returns the capacity text, having acquired and
\* created nothing and leaving the pool as it was.
C5_SaturatedWaitFails ==
    [][\A r \in Requests :
          pc[r] = "wait"
          => /\ waited[r] <= MaxWaitPolls
             /\ (pc'[r] = "wait" /\ waited'[r] # waited[r])
                => /\ waited'[r] = waited[r] + 1
                   /\ container'[r] = None
                   /\ <<containers, live, nextId>>' = <<containers, live, nextId>>
             /\ pc'[r] = "idle"
                => /\ waited[r] = MaxWaitPolls
                   /\ container[r] = None
                   /\ result'[r] = CapacityText
                   /\ <<containers, live, nextId>>' = <<containers, live, nextId>>]_vars

\* C5 witness: a call has come back with the capacity text while the pool is
\* at capacity with every unit Busy.
C5_Witness ==
    \E r \in Requests :
        /\ pc[r] = "idle"
        /\ result[r] = CapacityText
        /\ Len(containers) >= max_containers
        /\ \A i \in DOMAIN containers : containers[i].busy

\* C6: no call of execute_python_in_container ends by raising.
C6_NeverRaises == \A r \in Requests : result[r] # Raised

\* C7: once the handler of a request whose exec_run raised has released the
\* unit, the unit is gone from the pool and from the Docker daemon.
C7_RaisingUnitDestroyed ==
    \A r \in Requests :
        (pc[r] = "except_cleanup" /\ exec_result[r] = NoExec)
        => /\ container[r] \notin Tracked(containers)
           /\ container[r] \notin live

\* C8: an execution that has started can always come to an end: an execution
\* of code that does not terminate has a step (a timeout) that ends it.
C8_ExecutionBounded ==
    \A r \in Requests : pc[r] \in {"running", "hung"} => ENABLED Request(r)

\* C9: the release of a request whose code exited non-zero returns the text
\* with the exit code and the output, and leaves the unit Available in the
\* pool and alive in the daemon.
C9_NonZeroExitKeepsUnit ==
    [][\A r \in Requests :
          (pc[r] = "mark" /\ exec_result[r].exit_code # 0 /\ pc'[r] # "mark")
          => /\ pc'[r] = "idle"
             /\ result'[r] = ExitCodeText(exec_result[r])
             /\ Available(containers', container[r])
             /\ container[r] \in live']_vars

C11_CycleRemovesAllIdle ==
    [][(reaper_pc = "evict" /\ reaper_pc' = "check")
          => \A id \in IdleIds(containers, reaper_now) :
                id \notin Tracked(containers')]_vars

\* C12: once cleanup_all has run in the exit hook, no cycle of
\* cleanup_idle_containers runs any more: the cleanup thread has ended
\* before cleanup_all begins.
C12_NoCycleAfterCleanupAll ==
    [][shutdown_pc = "done" => ~(reaper_pc = "evict" /\ reaper_pc' = "check")]_vars

\* C13: cleanup_all ends with a pool that tracks no unit, whether or not
\* some container.remove() failed; the only containers it takes out of the
\* Docker daemon are units the pool tracked, Busy or not, and every tracked
\* unit whose removal did not fail is out of the daemon afterwards.
C13_CleanupAllEmptiesPool ==
    [][(shutdown_pc = "cleanup_all" /\ shutdown_pc' = "done")
          => /\ containers' = <<>>
             /\ live' \subseteq live
             /\ (live \ live') \subseteq Tracked(containers)]_vars

\* C13 witness: cleanup_all has returned with an empty pool while a
\* container it failed to remove is still alive in the daemon (the
\* container belongs to no request that is yet to register it).
C13_Witness ==
    /\ shutdown_pc = "done"
    /\ containers = <<>>
    /\ \E id \in live : \A r \in Requests : container[r] # id

\* a request has created container id and is yet to register it
PendingRegistration(id) ==
    \E r \in Requests : pc[r] = "add" /\ container[r] = id

\* C14: a unit that has left the pool never comes back: no step puts into
\* the pool an id that was handed out before, is not tracked, and is not the
\* new container of a request about to register it. A release by a request
\* that still ran on the unit when it was removed leaves the pool unchanged.
C14_NoResurrection ==
    [][/\ \A id \in Ids :
            (id < nextId /\ id \notin Tracked(containers) /\ ~PendingRegistration(id))
            => id \notin Tracked(containers')
       /\ \A r \in Requests :
            (/\ pc[r] \in {"mark", "except_mark"}
             /\ pc'[r] # pc[r]
             /\ container[r] \notin Tracked(containers))
            => containers' = containers]_vars

\* C14 witness: cleanup_all has emptied the pool while a request that ran on
\* one of its units is about to release it.
C14_Witness ==
    /\ shutdown_pc = "done"
    /\ \E r \in Requests :
          /\ pc[r] \in {"mark", "except_mark"}
          /\ container[r] # None
          /\ container[r] \notin Tracked(containers)

\* the path input s is absolute: it starts at the root
AbsoluteInput(s) == Len(s) >= 1 /\ s[1] = "/"

\* the path input s has a ".." segment: two dots with a slash or an end of
\* the input on either side
HasDotDotSegment(s) ==
    \E i \in 1..(Len(s) - 1) :
        /\ s[i] = "." /\ s[i + 1] = "."
        /\ (i = 1 \/ s[i - 1] = "/")
        /\ (i + 1 = Len(s) \/ s[i + 2] = "/")

\* C15: a file tool (list, read, write, delete, tree) called with a path
\* that is absolute or has a ".." segment returns the text of a validation
\* error, and neither the files nor the directories of code_dir change.
C15_BadPathRejected ==
    [][(/\ fout = NoOutput
        /\ fout' # NoOutput
        /\ AbsoluteInput(call.path) \/ HasDotDotSegment(call.path))
          => /\ fout'.kind = "validation_error"
             /\ files' = files
             /\ dirs' = dirs]_vars

\* C15 witness: delete_file, called with a relative path that goes up with
\* ".." after a directory, has returned a validation error while code_dir
\* holds a file.
C15_Witness ==
    /\ call.op = "delete"
    /\ ~AbsoluteInput(call.path)
    /\ HasDotDotSegment(call.path)
    /\ Head(call.path) = "a"
    /\ fout.kind = "validation_error"
    /\ files # {}

\* C16: the step that registers a newly created container registers it
\* Busy, so that no other request's get_available_container can return it
\* while its creator runs on it.
C16_CreatedRegisteredBusy ==
    [][\A r \in Requests :
          (pc[r] = "add" /\ pc'[r] = "exec")
          => Busy(containers', container[r])]_vars

\* C17: the scan a request makes first (get_available_container), made
\* while some unit is not busy, gives the request one of the units that were
\* not busy; in the pool exactly that unit becomes busy with last_used set
\* to the current time, every other record stays as it was, and no container
\* is created or removed.
C17_AcquireTakesAvailable ==
    [][\A r \in Requests :
          (/\ pc[r] = "acquire"
           /\ pc'[r] # "acquire"
           /\ \E i \in DOMAIN containers : ~containers[i].busy)
          => /\ pc'[r] = "exec"
             /\ reusing'[r]
             /\ Available(containers, container'[r])
             /\ DOMAIN containers' = DOMAIN containers
             /\ \A i \in DOMAIN containers :
                   containers'[i] =
                       IF containers[i].id = container'[r]
                       THEN [id |-> container'[r], busy |-> TRUE,
                             last_used |-> now]
                       ELSE containers[i]
             /\ <<live, nextId>>' = <<live, nextId>>]_vars

\* C17 witness: a request that did not wait is about to run on the only
\* container ever created, reused and busy with a refreshed last_used, after
\* the other request's call on it has returned its output.
C17_Witness ==
    \E r, o \in Requests :
        /\ pc[r] = "exec"
        /\ reusing[r]
        /\ waited[r] = 0
        /\ nextId = 2
        /\ containers = <<[id |-> container[r], busy |-> TRUE, last_used |-> 1]>>
        /\ o # r
        /\ pc[o] = "idle"
        /\ result[o].kind = "output_text"

\* C18: a request whose client.containers.run raises leaves the pool as it
\* was, at the failure and on its way out: the same tracked units, hence
\* the same answer of should_create_new_container; and its call returns the
\* text of the exception.
C18_FailedCreateKeepsCapacity ==
    [][\A r \in Requests :
          /\ (pc[r] = "create" /\ pc'[r] = "outer_except")
             => containers' = containers
          /\ (pc[r] = "outer_except" /\ pc'[r] = "idle")
             => /\ containers' = containers
                /\ result'[r] = ErrorText]_vars

\* C18 witness: a request has staged its script and sits in the handler of
\* the exception while no container was ever created: its creation failed;
\* the pool is empty and a new container may still be created.
C18_Witness ==
    \E r \in Requests :
        /\ pc[r] = "outer_except"
        /\ script = r
        /\ nextId = 1
        /\ containers = <<>>
        /\ should_create_new_container(containers)

\* C19: the handler of an exception raised after the request has already
\* released its unit (exec_run had returned) does not release it again: it
\* never clears the busy flag the unit carries at that moment.
C19_NoSecondRelease ==
    [][\A r \in Requests :
          (/\ pc[r] = "except_mark"
           /\ pc'[r] = "except_cleanup"
           /\ exec_result[r] # NoExec
           /\ Busy(containers, container[r]))
          => Busy(containers', container[r])]_vars

\* C20: the script an exec_run executes is the one its own request wrote:
\* no other request's script, and not a missing file.
C20_RunsOwnScript ==
    \A r \in Requests : pc[r] \in {"running", "hung"} => ran[r] = r

\* positions whose step calls os.remove(script_path) before it returns
RemovingPcs == {"cleanup", "except_cleanup", "outer_except"}

\* C21: when the call of a request returns while script.py still holds the
\* code that request wrote, script.py is gone after the return, unless the
\* returning step tried to delete it and the deletion failed.
C21_ScriptDeletedOnReturn ==
    [][\A r \in Requests :
          (/\ pc[r] # "idle"
           /\ pc'[r] = "idle"
           /\ script = r)
          => \/ script' = None
             \/ pc[r] \in RemovingPcs]_vars

\* characters a and b are the same letter in either case, or the same
\* character
SameIgnoringCase(a, b) ==
    \/ a = b
    \/ \E i \in DOMAIN LowerCase : {a, b} = {LowerCase[i], UpperCase[i]}

\* name starts with prefix when the case of letters is ignored
StartsWithIgnoringCase(name, prefix) ==
    /\ Len(prefix) <= Len(name)
    /\ \A i \in 1..Len(prefix) : SameIgnoringCase(name[i], prefix[i])

\* name matches a prefix of the deny list
MatchesDenyList(name) ==
    \E i \in DOMAIN system_env_prefixes :
        StartsWithIgnoringCase(name, system_env_prefixes[i])

\* C22: the env_vars a call has built holds exactly the variables of
\* os.environ whose name, case ignored, starts with none of the prefixes of
\* the deny list, each with its value; the connection strings MONGO_URI,
\* ELASTIC_URI, REDIS_URI, POSTGRES_URI and MYSQL_URI are among them whenever
\* the host has them.
C22_EnvIsFilteredHost ==
    env_pc = "done"
    => /\ DOMAIN env_vars = {k \in DOMAIN environ : ~MatchesDenyList(k)}
       /\ \A k \in DOMAIN env_vars : env_vars[k] = environ[k]
       /\ \A k \in ConnectionVars :
             k \in DOMAIN environ => k \in DOMAIN env_vars

\* C22 witness: of a host environment with MONGO_URI and a variable spelled
\* `path`, the env_vars built holds MONGO_URI alone, with its value.
C22_Witness ==
    /\ env_pc = "done"
    /\ DOMAIN environ = {<<"M", "O", "N", "G", "O", "_", "U", "R", "I">>,
                         <<"p", "a", "t", "h">>}
    /\ DOMAIN env_vars = {<<"M", "O", "N", "G", "O", "_", "U", "R", "I">>}
    /\ env_vars[<<"M", "O", "N", "G", "O", "_", "U", "R", "I">>] = "y"
    /\ environ[<<"M", "O", "N", "G", "O", "_", "U", "R", "I">>] = "y"

====
